---- MODULE Spec2Model ----
(***************************************************************************)
(* Multi-GPU coordination core of dxvk-nvapi:                              *)
(*   VkMultiGpuManager        (src/src/vk_multigpu_device.cpp)             *)
(*   VkFrameDistributor       (src/src/vk_multigpu_support.cpp)            *)
(*   VkMultiGpuSynchronizer   (src/src/vk_multigpu_support.cpp)            *)
(* Indices are 0-based as in the source; TLA+ sequences are 1-based, so    *)
(* element i of a std::vector v is v[i + 1].                               *)
(***************************************************************************)
EXTENDS Integers, Sequences, FiniteSets, TLC

(* ------------------------------ bounds -------------------------------- *)
\* physical devices the instance may enumerate (registry specification)
MaxPhysicalDevices == 2
\* InitializeMultiGpu calls made on one registry
MaxInitCalls == 2
\* queue families of one physical device (queue-selection specification)
MaxQueueFamilies == 2
\* active devices behind a distributor
MaxActiveGpus == 5
\* frame width and height
MaxFrameDim == 4
\* active devices behind a synchronizer
MaxSyncGpus == 2
\* resources the caller holds at one time
MaxAllocations == 2
\* handles other than VK_NULL_HANDLE a caller may pass to a free call
MaxForeignHandle == 1
\* active devices behind a command distributor
MaxCmdGpus == 2
\* fences the caller has outstanding on one device
MaxPendingFences == 2
\* submissions in one SubmitMultiGpuFrame call
MaxFrameSubmissions == 2
\* timeouts passed to WaitForGpuCompletion
MaxTimeoutNs == 1
\* threads calling into one registry
MaxThreads == 2
\* frame ids signalled or waited for
MaxFrameId == 2
\* timeline semaphores created per device
MaxSemaphores == 1

(* ------------------------- program constants -------------------------- *)
\* the reserved queue-family index 0xFFFFFFFF, written as the same bit pattern read as a
\* 32-bit signed integer; the source only compares it for equality
UINT32_MAX == -1
VK_NULL_HANDLE == 0

Min(a, b) == IF a < b THEN a ELSE b

QueueFlagBits == {"GRAPHICS", "COMPUTE", "TRANSFER"}

VARIABLES
    \* ---- Vulkan side (the driver and the hardware)
    physicalDevices,   \* enumeration order; each entry gives the flag sets of its queue
                       \* families and how the driver answers vkCreateDevice and
                       \* vkCreateCommandPool on it
    vkDevices,         \* logical devices ever created; handle h is vkDevices[h]
    vkLog,             \* destroy calls received, in order
    \* ---- VkMultiGpuManager
    gpuDevices,        \* std::vector<VkGpuDevice>
    registryAlive,     \* FALSE once the destructor ran
    initCalls,         \* InitializeMultiGpu calls made so far
    lastInit,          \* the last InitializeMultiGpu call: arguments, trace, return value
    \* ---- VkFrameDistributor
    distributionMode, frameWidth, frameHeight, cachedRegions,
    frameCall,         \* the last distributor call and what it returned
    requested,         \* the caller's side: the mode and resolution it last asked for
    \* ---- VkMultiGpuSynchronizer
    timelineSemaphores, currentFrameIds,
    syncCall,          \* the last synchronizer call, the counters before it, its outcome
    \* ---- VkMultiGpuMemoryManager
    bufferStrategies,  \* std::map<VkBuffer, MemoryPlacementStrategy>
    imageStrategies,   \* std::map<VkImage, MemoryPlacementStrategy>
    liveAllocations,   \* the caller's side: the resources it allocated and has not freed,
                       \* each with the handle it was given and the strategy it asked for
    memCall,           \* the last memory-manager call, the tables before it, its result
    \* ---- VkMultiGpuCommandDistributor
    perGpuCommandQueues,
    pendingFences,     \* the caller's side: per device, the fences it handed over with a
                       \* submission and that have not been signalled
    cmdCall,           \* the last command-distributor call and its result
    \* ---- threads calling into one VkMultiGpuManager
    gpuMutex,          \* std::mutex gpuMutex: 0 when free, else the thread holding it
    pc                 \* per thread: the call it is in and how far it got

vkVars == <<physicalDevices, vkDevices, vkLog>>
registryVars == <<gpuDevices, registryAlive, initCalls, lastInit>>
frameVars == <<distributionMode, frameWidth, frameHeight, cachedRegions, frameCall,
               requested>>
syncVars == <<timelineSemaphores, currentFrameIds, syncCall>>
memVars == <<bufferStrategies, imageStrategies, liveAllocations, memCall>>
cmdVars == <<perGpuCommandQueues, pendingFences, cmdCall>>
lockVars == <<gpuMutex, pc>>
vars == <<vkVars, registryVars, frameVars, syncVars, memVars, cmdVars, lockVars>>

(* ====================== VkMultiGpuManager ============================= *)

\* VkGpuDevice gpuInfo = {} : every handle null, every index 0
EmptyGpuInfo ==
    [ deviceId |-> 0, physicalDevice |-> 0, logicalDevice |-> VK_NULL_HANDLE,
      graphicsQueue |-> <<>>, computeQueue |-> <<>>, transferQueue |-> <<>>,
      commandPool |-> VK_NULL_HANDLE,
      graphicsQueueFamilyIndex |-> 0, computeQueueFamilyIndex |-> 0,
      transferQueueFamilyIndex |-> 0 ]

\* the family loop of SelectQueueFamilyIndices, from family i on
RECURSIVE SelectLoop(_, _, _)
\* faulty variant: graphics keeps its first match, like compute and transfer
SelectLoopFirstGraphics(queueFamilies, i, gpuInfo) ==
    IF i >= Len(queueFamilies) THEN gpuInfo
    ELSE LET flags == queueFamilies[i + 1]
             g1 == IF "GRAPHICS" \in flags /\ gpuInfo.graphicsQueueFamilyIndex = UINT32_MAX
                   THEN [gpuInfo EXCEPT !.graphicsQueueFamilyIndex = i] ELSE gpuInfo
             g2 == IF "COMPUTE" \in flags /\ g1.computeQueueFamilyIndex = UINT32_MAX
                   THEN [g1 EXCEPT !.computeQueueFamilyIndex = i] ELSE g1
             g3 == IF "TRANSFER" \in flags /\ g2.transferQueueFamilyIndex = UINT32_MAX
                   THEN [g2 EXCEPT !.transferQueueFamilyIndex = i] ELSE g2
         IN  SelectLoop(queueFamilies, i + 1, g3)

SelectLoop(queueFamilies, i, gpuInfo) ==
    IF i >= Len(queueFamilies) THEN gpuInfo
    ELSE LET flags == queueFamilies[i + 1]
             g1 == IF "GRAPHICS" \in flags
                   THEN [gpuInfo EXCEPT !.graphicsQueueFamilyIndex = i] ELSE gpuInfo
             g2 == IF "COMPUTE" \in flags /\ g1.computeQueueFamilyIndex = UINT32_MAX
                   THEN [g1 EXCEPT !.computeQueueFamilyIndex = i] ELSE g1
             g3 == IF "TRANSFER" \in flags /\ g2.transferQueueFamilyIndex = UINT32_MAX
                   THEN [g2 EXCEPT !.transferQueueFamilyIndex = i] ELSE g2
         IN  SelectLoop(queueFamilies, i + 1, g3)

\* SelectQueueFamilyIndices(device, gpuInfo): the updated gpuInfo and the return value
SelectQueueFamilyIndices(queueFamilies, gpuInfo) ==
    LET reset == [gpuInfo EXCEPT !.graphicsQueueFamilyIndex = UINT32_MAX,
                                 !.computeQueueFamilyIndex = UINT32_MAX,
                                 !.transferQueueFamilyIndex = UINT32_MAX]
        out == SelectLoop(queueFamilies, 0, reset)
    IN  [gpuInfo |-> out, ok |-> out.graphicsQueueFamilyIndex # UINT32_MAX]

\* the VkDeviceQueueCreateInfo list CreateLogicalDevice builds (family indices)
QueueCreateInfos(gpuInfo) ==
    (IF gpuInfo.graphicsQueueFamilyIndex # UINT32_MAX
     THEN <<gpuInfo.graphicsQueueFamilyIndex>> ELSE <<>>)
    \o
    (IF gpuInfo.computeQueueFamilyIndex # UINT32_MAX
        /\ gpuInfo.computeQueueFamilyIndex # gpuInfo.graphicsQueueFamilyIndex
     THEN <<gpuInfo.computeQueueFamilyIndex>> ELSE <<>>)

\* vkGetDeviceQueue(device, family, 0): the queue handle names its device and family
GetDeviceQueue(device, family) == <<device, family>>

BringUpOutcomes == {"ok", "device_failed", "pool_failed"}

\* CreateLogicalDevice(physicalDevice, gpuInfo) against driver state `devices`;
\* `outcome` is what vkCreateDevice and vkCreateCommandPool answer.
\* faulty variant: a failed pool creation returns without destroying the device
CreateLogicalDeviceNoRollback(gpuInfo, devices, outcome) ==
    IF outcome = "device_failed"
    THEN [ok |-> FALSE, gpuInfo |-> gpuInfo, devices |-> devices, log |-> <<>>]
    ELSE
      LET h == Len(devices) + 1
          created == [physicalDevice |-> gpuInfo.physicalDevice,
                      queueCreateInfos |-> QueueCreateInfos(gpuInfo),
                      alive |-> TRUE, commandPool |-> "none"]
      IN  IF outcome = "pool_failed"
          THEN [ok |-> FALSE, gpuInfo |-> [gpuInfo EXCEPT !.logicalDevice = h],
                devices |-> Append(devices, created), log |-> <<>>]
          ELSE [ok |-> TRUE,
                gpuInfo |-> [gpuInfo EXCEPT !.logicalDevice = h, !.commandPool = h],
                devices |-> Append(devices, [created EXCEPT !.commandPool = "alive"]),
                log |-> <<>>]

CreateLogicalDevice(gpuInfo, devices, outcome) ==
    IF outcome = "device_failed"
    THEN [ok |-> FALSE, gpuInfo |-> gpuInfo, devices |-> devices, log |-> <<>>]
    ELSE
      LET h  == Len(devices) + 1
          g1 == [gpuInfo EXCEPT
                    !.logicalDevice = h,
                    !.graphicsQueue = GetDeviceQueue(h, gpuInfo.graphicsQueueFamilyIndex),
                    !.computeQueue =
                        IF gpuInfo.computeQueueFamilyIndex # UINT32_MAX
                        THEN GetDeviceQueue(h, gpuInfo.computeQueueFamilyIndex) ELSE @,
                    !.transferQueue =
                        IF gpuInfo.transferQueueFamilyIndex # UINT32_MAX
                        THEN GetDeviceQueue(h, gpuInfo.transferQueueFamilyIndex) ELSE @]
          created == [physicalDevice |-> gpuInfo.physicalDevice,
                      queueCreateInfos |-> QueueCreateInfos(gpuInfo),
                      alive |-> TRUE, commandPool |-> "none"]
      IN  IF outcome = "pool_failed"
          THEN [ok |-> FALSE, gpuInfo |-> g1,
                devices |-> Append(devices, [created EXCEPT !.alive = FALSE]),
                log |-> << <<"vkDestroyDevice", h>> >>]
          ELSE [ok |-> TRUE, gpuInfo |-> [g1 EXCEPT !.commandPool = h],
                devices |-> Append(devices, [created EXCEPT !.commandPool = "alive"]),
                log |-> <<>>]

\* the candidate loop of InitializeMultiGpu, from candidate i on.
\* st = [gpuDevices, vkDevices, vkLog, attempted, selected]
RECURSIVE InitLoop(_, _, _, _)
InitLoop(i, gpusToUse, devices, st) ==
    IF i >= gpusToUse THEN st
    ELSE
      LET gpuInfo == [EmptyGpuInfo EXCEPT !.deviceId = i, !.physicalDevice = i]
          sel == SelectQueueFamilyIndices(devices[i + 1].queueFamilies, gpuInfo)
          cld == CreateLogicalDevice(sel.gpuInfo, st.vkDevices, devices[i + 1].bringUp)
          st1 == [st EXCEPT !.attempted = Append(@, i),
                            !.selected = Append(@, sel.gpuInfo)]
      IN  IF ~sel.ok THEN InitLoop(i + 1, gpusToUse, devices, st1)
          ELSE IF ~cld.ok
          THEN InitLoop(i + 1, gpusToUse, devices,
                        [st1 EXCEPT !.vkDevices = cld.devices, !.vkLog = @ \o cld.log])
          ELSE InitLoop(i + 1, gpusToUse, devices,
                        [st1 EXCEPT !.vkDevices = cld.devices,
                                    !.gpuDevices = Append(@, cld.gpuInfo)])

\* std::min(physicalDeviceCount, desiredGpuCount)
\* faulty variant: the desired count is ignored
GpusToUseUnclamped(physicalDeviceCount, desiredGpuCount) == physicalDeviceCount

GpusToUse(physicalDeviceCount, desiredGpuCount) == Min(physicalDeviceCount, desiredGpuCount)

NoInit == [called |-> FALSE]

\* the return value of InitializeMultiGpu once the candidate loop has run
\* faulty variant: success whenever a physical device was enumerated
InitReturnAlwaysTrue(physicalDeviceCount, gpus) == physicalDeviceCount # 0

InitReturn(physicalDeviceCount, gpus) ==
    IF physicalDeviceCount = 0 THEN FALSE ELSE gpus # <<>>

\* InitializeMultiGpu(instance, desiredGpuCount) run on a registry holding `gpus`, the
\* instance enumerating `physical`: the state it leaves and the record of the call
InitializeMultiGpuResult(physical, gpus, devices, log, desiredGpuCount) ==
    LET physicalDeviceCount == Len(physical)
        gpusToUse == GpusToUse(physicalDeviceCount, desiredGpuCount)
        st0 == [gpuDevices |-> gpus, vkDevices |-> devices, vkLog |-> log,
                attempted |-> <<>>, selected |-> <<>>]
        st  == IF physicalDeviceCount = 0 THEN st0
               ELSE InitLoop(0, gpusToUse, physical, st0)
    IN  [gpuDevices |-> st.gpuDevices, vkDevices |-> st.vkDevices, vkLog |-> st.vkLog,
         lastInit |-> [called |-> TRUE,
                       desiredGpuCount |-> desiredGpuCount,
                       countBefore |-> Len(gpus),
                       attempted |-> st.attempted,
                       selected |-> st.selected,
                       result |-> InitReturn(physicalDeviceCount, st.gpuDevices)]]

\* bool InitializeMultiGpu(instance, desiredGpuCount), under gpuMutex
InitializeMultiGpu(desiredGpuCount) ==
    /\ registryAlive
    /\ initCalls < MaxInitCalls
    /\ initCalls' = initCalls + 1
    /\ LET r == InitializeMultiGpuResult(physicalDevices, gpuDevices, vkDevices, vkLog,
                                         desiredGpuCount)
       IN  /\ gpuDevices' = r.gpuDevices
           /\ vkDevices' = r.vkDevices
           /\ vkLog' = r.vkLog
           /\ lastInit' = r.lastInit
    /\ UNCHANGED <<physicalDevices, registryAlive, frameVars, syncVars, memVars, cmdVars, lockVars>>

\* the per-device body of the destructor's loop, from record i on
RECURSIVE DestroyLoop(_, _, _)
\* faulty variant: the logical device is destroyed before its command pool
DestroyLoopDeviceFirst(i, gpus, st) ==
    IF i > Len(gpus) THEN st
    ELSE
      LET gpu == gpus[i]
          s1 == IF gpu.logicalDevice # VK_NULL_HANDLE
                THEN [st EXCEPT !.vkDevices[gpu.logicalDevice].alive = FALSE,
                                !.vkLog = Append(@, <<"vkDestroyDevice", gpu.logicalDevice>>)]
                ELSE st
          s2 == IF gpu.commandPool # VK_NULL_HANDLE
                THEN [s1 EXCEPT !.vkDevices[gpu.commandPool].commandPool = "destroyed",
                                !.vkLog = Append(@, <<"vkDestroyCommandPool", gpu.commandPool>>)]
                ELSE s1
      IN  DestroyLoop(i + 1, gpus, s2)

DestroyLoop(i, gpus, st) ==
    IF i > Len(gpus) THEN st
    ELSE
      LET gpu == gpus[i]
          s1 == IF gpu.commandPool # VK_NULL_HANDLE
                THEN [st EXCEPT !.vkDevices[gpu.commandPool].commandPool = "destroyed",
                                !.vkLog = Append(@, <<"vkDestroyCommandPool", gpu.commandPool>>)]
                ELSE st
          s2 == IF gpu.logicalDevice # VK_NULL_HANDLE
                THEN [s1 EXCEPT !.vkDevices[gpu.logicalDevice].alive = FALSE,
                                !.vkLog = Append(@, <<"vkDestroyDevice", gpu.logicalDevice>>)]
                ELSE s1
      IN  DestroyLoop(i + 1, gpus, s2)

\* ~VkMultiGpuManager(), under gpuMutex
DestroyMultiGpuManager ==
    /\ registryAlive
    /\ LET st == DestroyLoop(1, gpuDevices, [vkDevices |-> vkDevices, vkLog |-> vkLog])
       IN  /\ vkDevices' = st.vkDevices
           /\ vkLog' = st.vkLog
    /\ gpuDevices' = <<>>
    /\ registryAlive' = FALSE
    /\ UNCHANGED <<physicalDevices, initCalls, lastInit, frameVars, syncVars, memVars, cmdVars, lockVars>>

\* uint32_t GetActiveGpuCount() const
GetActiveGpuCount == Len(gpuDevices)

\* VkGpuDevice* GetGpuByIndex(index): the record at that index, or nullptr
GetGpuByIndex(index) ==
    IF index < Len(gpuDevices) THEN gpuDevices[index + 1] ELSE "nullptr"


(* ====================== VkFrameDistributor ============================ *)

FrameDistributionModes ==
    {"SPLIT_FRAME_HORIZONTAL", "SPLIT_FRAME_VERTICAL", "SPLIT_FRAME_QUADRANTS",
     "AFR_ALTERNATING", "SFR_OPTIMIZED"}

\* FrameRegion{} : all fields zero
DefaultRegion == [offsetX |-> 0, offsetY |-> 0, width |-> 0, height |-> 0, gpuIndex |-> 0]

\* ComputeHorizontalSplit() for gpuCount >= 1 (the loop pushes region i for i = 0..gpuCount-1).
\* i * regionWidth <= frameWidth and halfWidth <= frameWidth, so no uint32_t operation of
\* the three splits wraps and the arithmetic is that of the naturals.
\* faulty variant: the last region does not absorb the remainder
ComputeHorizontalSplitNoRemainder(width, height, gpuCount) ==
    LET regionWidth == width \div gpuCount
    IN  [k \in 1 .. gpuCount |->
            [offsetX |-> (k - 1) * regionWidth, offsetY |-> 0,
             width |-> regionWidth, height |-> height, gpuIndex |-> k - 1]]

ComputeHorizontalSplit(width, height, gpuCount) ==
    LET regionWidth == width \div gpuCount
    IN  [k \in 1 .. gpuCount |->
            LET i == k - 1
                offsetX == i * regionWidth
            IN  [offsetX |-> offsetX, offsetY |-> 0,
                 width |-> IF i = gpuCount - 1 THEN width - offsetX ELSE regionWidth,
                 height |-> height, gpuIndex |-> i]]

\* ComputeVerticalSplit() for gpuCount >= 1
\* faulty variant: the last region does not absorb the remainder
ComputeVerticalSplitNoRemainder(width, height, gpuCount) ==
    LET regionHeight == height \div gpuCount
    IN  [k \in 1 .. gpuCount |->
            [offsetX |-> 0, offsetY |-> (k - 1) * regionHeight, width |-> width,
             height |-> regionHeight, gpuIndex |-> k - 1]]

ComputeVerticalSplit(width, height, gpuCount) ==
    LET regionHeight == height \div gpuCount
    IN  [k \in 1 .. gpuCount |->
            LET i == k - 1
                offsetY == i * regionHeight
            IN  [offsetX |-> 0, offsetY |-> offsetY, width |-> width,
                 height |-> IF i = gpuCount - 1 THEN height - offsetY ELSE regionHeight,
                 gpuIndex |-> i]]

\* the quadrant ComputeQuadrantSplit assigns to ordinal i
Quadrant(i, width, height) ==
    LET halfWidth == width \div 2
        halfHeight == height \div 2
    IN  IF i = 0 THEN
            [offsetX |-> 0, offsetY |-> 0,
             width |-> halfWidth, height |-> halfHeight, gpuIndex |-> i]
        ELSE IF i = 1 THEN
            [offsetX |-> halfWidth, offsetY |-> 0,
             width |-> width - halfWidth, height |-> halfHeight, gpuIndex |-> i]
        ELSE IF i = 2 THEN
            [offsetX |-> 0, offsetY |-> halfHeight,
             width |-> halfWidth, height |-> height - halfHeight, gpuIndex |-> i]
        ELSE
            [offsetX |-> halfWidth, offsetY |-> halfHeight,
             width |-> width - halfWidth, height |-> height - halfHeight,
             gpuIndex |-> i]

\* ComputeQuadrantSplit()
\* faulty variant: one region per active device, not capped at 4
ComputeQuadrantSplitEveryGpu(width, height, activeCount) ==
    [k \in 1 .. activeCount |-> Quadrant(k - 1, width, height)]

ComputeQuadrantSplit(width, height, activeCount) ==
    LET gpuCount == Min(4, activeCount)
    IN  [k \in 1 .. gpuCount |-> Quadrant(k - 1, width, height)]

\* the switch of ComputeFrameRegions(), for an active count >= 1 in the divided modes
ComputeFrameRegionsOf(mode, width, height, activeCount) ==
    CASE mode = "SPLIT_FRAME_HORIZONTAL" -> ComputeHorizontalSplit(width, height, activeCount)
      [] mode = "SPLIT_FRAME_VERTICAL"   -> ComputeVerticalSplit(width, height, activeCount)
      [] mode = "SPLIT_FRAME_QUADRANTS"  -> ComputeQuadrantSplit(width, height, activeCount)
      [] OTHER                           -> ComputeHorizontalSplit(width, height, activeCount)

\* frameWidth / gpuCount with gpuCount = 0: the two split loops divide before looping
DividesByZero(mode, activeCount) ==
    mode # "SPLIT_FRAME_QUADRANTS" /\ activeCount = 0

\* what a call computing the partition can yield: the regions, or, on a division by
\* zero, either a trap or (division yielding some value, loop of zero rounds) no region.
\* `degenerate` says the call reported a degenerate partition: no path of the source does.
RegionOutcomes(mode, width, height, activeCount) ==
    IF DividesByZero(mode, activeCount)
    THEN {[fault |-> TRUE, dividedByZero |-> TRUE, degenerate |-> FALSE, regions |-> <<>>],
          [fault |-> FALSE, dividedByZero |-> TRUE, degenerate |-> FALSE, regions |-> <<>>]}
    ELSE {[fault |-> FALSE, dividedByZero |-> FALSE, degenerate |-> FALSE,
           regions |-> ComputeFrameRegionsOf(mode, width, height, activeCount)]}

\* the filter of GetRegionForGpu over the computed regions, from position k on
RECURSIVE RegionOwnedBy(_, _, _)
\* faulty variant: the owner is compared one off
RegionOwnedByOffByOne(regions, gpuIndex, k) ==
    IF k > Len(regions) THEN DefaultRegion
    ELSE IF regions[k].gpuIndex + 1 = gpuIndex THEN regions[k]
    ELSE RegionOwnedBy(regions, gpuIndex, k + 1)

RegionOwnedBy(regions, gpuIndex, k) ==
    IF k > Len(regions) THEN DefaultRegion
    ELSE IF regions[k].gpuIndex = gpuIndex THEN regions[k]
    ELSE RegionOwnedBy(regions, gpuIndex, k + 1)

NoFrameCall == [op |-> "none"]

\* void SetDistributionMode(mode)
\* faulty variant: the cached partition is kept and returned again
SetDistributionModeKeepsOld(mode) ==
    /\ distributionMode' = distributionMode
    /\ cachedRegions' = cachedRegions
    /\ frameCall' = [op |-> "SetDistributionMode", mode |-> mode]
    /\ requested' = [requested EXCEPT !.mode = mode]
    /\ UNCHANGED <<frameWidth, frameHeight, vkVars, registryVars, syncVars, memVars, cmdVars, lockVars>>

SetDistributionMode(mode) ==
    /\ distributionMode' = mode
    /\ cachedRegions' = <<>>
    /\ frameCall' = [op |-> "SetDistributionMode", mode |-> mode]
    /\ requested' = [requested EXCEPT !.mode = mode]
    /\ UNCHANGED <<frameWidth, frameHeight, vkVars, registryVars, syncVars, memVars, cmdVars, lockVars>>

\* void SetFrameResolution(width, height)
SetFrameResolution(width, height) ==
    /\ frameWidth' = width
    /\ frameHeight' = height
    /\ cachedRegions' = <<>>
    /\ frameCall' = [op |-> "SetFrameResolution", width |-> width, height |-> height]
    /\ requested' = [requested EXCEPT !.width = width, !.height = height]
    /\ UNCHANGED <<distributionMode, vkVars, registryVars, syncVars, memVars, cmdVars, lockVars>>

\* std::vector<FrameRegion> ComputeFrameRegions() const
ComputeFrameRegions ==
    /\ \E out \in RegionOutcomes(distributionMode, frameWidth, frameHeight, GetActiveGpuCount) :
          frameCall' = [op |-> "ComputeFrameRegions", fault |-> out.fault,
                        dividedByZero |-> out.dividedByZero,
                        degenerate |-> out.degenerate, regions |-> out.regions]
    /\ UNCHANGED <<distributionMode, frameWidth, frameHeight, cachedRegions, requested,
                   vkVars, registryVars, syncVars, memVars, cmdVars, lockVars>>

\* FrameRegion GetRegionForGpu(gpuIndex) const
GetRegionForGpu(gpuIndex) ==
    /\ \E out \in RegionOutcomes(distributionMode, frameWidth, frameHeight, GetActiveGpuCount) :
          frameCall' = [op |-> "GetRegionForGpu", gpuIndex |-> gpuIndex, fault |-> out.fault,
                        dividedByZero |-> out.dividedByZero,
                        degenerate |-> out.degenerate,
                        region |-> RegionOwnedBy(out.regions, gpuIndex, 1)]
    /\ UNCHANGED <<distributionMode, frameWidth, frameHeight, cachedRegions, requested,
                   vkVars, registryVars, syncVars, memVars, cmdVars, lockVars>>

(* ===================== VkMultiGpuSynchronizer ========================= *)

\* the body of SignalFrameComplete on the counter vector
\* faulty variant: the counter is only ever raised
SignalFrameCompleteMax(ids, gpuIndex, frameId) ==
    IF gpuIndex < Len(ids) /\ frameId > ids[gpuIndex + 1]
    THEN [ids EXCEPT ![gpuIndex + 1] = frameId] ELSE ids

SignalFrameCompleteIds(ids, gpuIndex, frameId) ==
    IF gpuIndex < Len(ids) THEN [ids EXCEPT ![gpuIndex + 1] = frameId] ELSE ids

NoSyncCall == [op |-> "none"]

\* void SignalFrameComplete(gpuIndex, frameId)
SignalFrameComplete(gpuIndex, frameId) ==
    /\ currentFrameIds' = SignalFrameCompleteIds(currentFrameIds, gpuIndex, frameId)
    /\ syncCall' = [op |-> "SignalFrameComplete", gpuIndex |-> gpuIndex,
                    frameId |-> frameId, before |-> currentFrameIds, raised |-> FALSE]
    /\ UNCHANGED <<timelineSemaphores, vkVars, registryVars, frameVars, memVars, cmdVars, lockVars>>

\* void WaitForFrameComplete(gpuIndex, frameId) {} : returns at once
WaitForFrameComplete(gpuIndex, frameId) ==
    /\ syncCall' = [op |-> "WaitForFrameComplete", gpuIndex |-> gpuIndex,
                    frameId |-> frameId, before |-> currentFrameIds, raised |-> FALSE]
    /\ UNCHANGED <<timelineSemaphores, currentFrameIds, vkVars, registryVars, frameVars, memVars, cmdVars, lockVars>>

\* VkSemaphore CreateTimelineSemaphore(gpuIndex, initialValue)
CreateTimelineSemaphore(gpuIndex, initialValue) ==
    /\ gpuIndex < Len(timelineSemaphores) =>
          Len(timelineSemaphores[gpuIndex + 1]) < MaxSemaphores
    /\ timelineSemaphores' =
          IF gpuIndex >= Len(timelineSemaphores) THEN timelineSemaphores
          ELSE [timelineSemaphores EXCEPT ![gpuIndex + 1] = Append(@, VK_NULL_HANDLE)]
    /\ syncCall' = [op |-> "CreateTimelineSemaphore", gpuIndex |-> gpuIndex,
                    frameId |-> initialValue, before |-> currentFrameIds, raised |-> FALSE]
    /\ UNCHANGED <<currentFrameIds, vkVars, registryVars, frameVars, memVars, cmdVars, lockVars>>

(* ===================== VkMultiGpuMemoryManager ======================== *)

MemoryPlacementStrategies == {"REPLICATED", "DISTRIBUTED", "PINNED_HOST", "GPU_LOCAL"}

\* handles a caller can name: the one the allocators return and foreign ones
Handles == VK_NULL_HANDLE .. MaxForeignHandle

\* std::map: table[handle] = strategy inserts the key or overwrites its value
\* faulty variant: an existing key keeps its value (std::map::insert)
RecordIfAbsent(table, handle, strategy) ==
    [x \in DOMAIN table \cup {handle} |-> IF x \in DOMAIN table THEN table[x] ELSE strategy]

Record(table, handle, strategy) ==
    [x \in DOMAIN table \cup {handle} |-> IF x = handle THEN strategy ELSE table[x]]

\* std::map::erase(key): removes the key if present, else nothing
Erase(table, handle) == [x \in DOMAIN table \ {handle} |-> table[x]]

\* the caller's list once it has freed one of its resources of that kind and handle
\* (the k-th entry), or the list as it was when it holds none
Released(kind, handle) ==
    LET held == {k \in DOMAIN liveAllocations :
                    liveAllocations[k].kind = kind /\ liveAllocations[k].handle = handle}
    IN  IF held = {} THEN {liveAllocations}
        ELSE {SubSeq(liveAllocations, 1, k - 1)
                 \o SubSeq(liveAllocations, k + 1, Len(liveAllocations)) : k \in held}

NoMemCall == [op |-> "none"]

\* VkMultiGpuMemoryManager(gpuManager): both tables empty
MemoryConstructed ==
    /\ bufferStrategies = <<>>
    /\ imageStrategies = <<>>
    /\ liveAllocations = <<>>
    /\ memCall = NoMemCall

\* VkBuffer AllocateBuffer(usage, size, strategy, targetGpus)
AllocateBuffer(strategy) ==
    /\ Len(liveAllocations) < MaxAllocations
    /\ LET buffer == VK_NULL_HANDLE
       IN  /\ bufferStrategies' = Record(bufferStrategies, buffer, strategy)
           /\ memCall' = [op |-> "AllocateBuffer", strategy |-> strategy,
                          returned |-> buffer, buffersBefore |-> bufferStrategies,
                          imagesBefore |-> imageStrategies]
           /\ liveAllocations' = Append(liveAllocations,
                                        [kind |-> "buffer", handle |-> buffer,
                                         strategy |-> strategy])
    /\ UNCHANGED <<imageStrategies, vkVars, registryVars, frameVars, syncVars, cmdVars,
                   lockVars>>

\* VkImage AllocateImage(imageInfo, strategy, targetGpus)
AllocateImage(strategy) ==
    /\ Len(liveAllocations) < MaxAllocations
    /\ LET image == VK_NULL_HANDLE
       IN  /\ imageStrategies' = Record(imageStrategies, image, strategy)
           /\ memCall' = [op |-> "AllocateImage", strategy |-> strategy,
                          returned |-> image, buffersBefore |-> bufferStrategies,
                          imagesBefore |-> imageStrategies]
           /\ liveAllocations' = Append(liveAllocations,
                                        [kind |-> "image", handle |-> image,
                                         strategy |-> strategy])
    /\ UNCHANGED <<bufferStrategies, vkVars, registryVars, frameVars, syncVars, cmdVars,
                   lockVars>>

\* void FreeBuffer(buffer)
FreeBuffer(buffer) ==
    /\ bufferStrategies' = Erase(bufferStrategies, buffer)
    /\ memCall' = [op |-> "FreeBuffer", handle |-> buffer,
                   buffersBefore |-> bufferStrategies, imagesBefore |-> imageStrategies]
    /\ liveAllocations' \in Released("buffer", buffer)
    /\ UNCHANGED <<imageStrategies, vkVars, registryVars, frameVars, syncVars, cmdVars,
                   lockVars>>

\* void FreeImage(image)
FreeImage(image) ==
    /\ imageStrategies' = Erase(imageStrategies, image)
    /\ memCall' = [op |-> "FreeImage", handle |-> image,
                   buffersBefore |-> bufferStrategies, imagesBefore |-> imageStrategies]
    /\ liveAllocations' \in Released("image", image)
    /\ UNCHANGED <<bufferStrategies, vkVars, registryVars, frameVars, syncVars, cmdVars,
                   lockVars>>


(* =================== VkMultiGpuCommandDistributor ===================== *)

NoCmdCall == [op |-> "none"]

\* VkMultiGpuCommandDistributor(gpuManager) over a registry with n active devices:
\* one empty queue list per device; the caller has handed over no fence yet
CommandConstructed(n) ==
    /\ perGpuCommandQueues = [k \in 1 .. n |-> <<>>]
    /\ pendingFences = [k \in 1 .. n |-> 0]
    /\ cmdCall = NoCmdCall

\* the caller's fences once it has handed one more submission for device gpuIndex to
\* SubmitCommandBuffersToGpu, whose body is empty: nothing reaches a queue, so the fence
\* of the submission is never signalled
RECURSIVE Submitted(_, _)
Submitted(pending, submissions) ==
    IF submissions = <<>> THEN pending
    ELSE LET gpuIndex == Head(submissions)
             handed == IF gpuIndex + 1 \in DOMAIN pending
                       THEN [pending EXCEPT ![gpuIndex + 1] = @ + 1] ELSE pending
         IN  Submitted(handed, Tail(submissions))

\* void SubmitCommandBuffersToGpu(submission) {}
SubmitCommandBuffersToGpu(gpuIndex) ==
    /\ pendingFences' = Submitted(pendingFences, <<gpuIndex>>)
    /\ \A k \in DOMAIN pendingFences : pendingFences'[k] <= MaxPendingFences
    /\ cmdCall' = [op |-> "SubmitCommandBuffersToGpu", gpuIndex |-> gpuIndex]
    /\ UNCHANGED <<perGpuCommandQueues, vkVars, registryVars, frameVars, syncVars,
                   memVars, lockVars>>

\* void SubmitMultiGpuFrame(submissions): SubmitCommandBuffersToGpu for each, in order
SubmitMultiGpuFrame(submissions) ==
    /\ pendingFences' = Submitted(pendingFences, submissions)
    /\ \A k \in DOMAIN pendingFences : pendingFences'[k] <= MaxPendingFences
    /\ cmdCall' = [op |-> "SubmitMultiGpuFrame", submissions |-> submissions]
    /\ UNCHANGED <<perGpuCommandQueues, vkVars, registryVars, frameVars, syncVars,
                   memVars, lockVars>>

\* the value WaitForGpuCompletion returns
WaitForGpuCompletionResult(gpuIndex, timeoutNs) == TRUE

\* bool WaitForGpuCompletion(gpuIndex, timeoutNs) { return true; }
WaitForGpuCompletion(gpuIndex, timeoutNs) ==
    /\ cmdCall' = [op |-> "WaitForGpuCompletion", gpuIndex |-> gpuIndex,
                   timeoutNs |-> timeoutNs,
                   result |-> WaitForGpuCompletionResult(gpuIndex, timeoutNs)]
    /\ UNCHANGED <<perGpuCommandQueues, pendingFences, vkVars, registryVars, frameVars,
                   syncVars, memVars, lockVars>>


(* ============ VkMultiGpuManager called from several threads =========== *)

Threads == 1 .. MaxThreads

Idle == [op |-> "idle", at |-> "out"]

\* std::lock_guard<std::mutex> lock(gpuMutex) can return: nobody holds the mutex
\* faulty variant: no lock is taken
MutexNeverHeld == TRUE

MutexFree == gpuMutex = 0

\* the threads inside InitializeMultiGpu or the destructor, past the lock_guard
InSection == {t \in DOMAIN pc : pc[t].at = "section"}

\* thread t calls InitializeMultiGpu(instance, desiredGpuCount) on the live registry
CallInitializeMultiGpu(t, desiredGpuCount) ==
    /\ pc[t] = Idle
    /\ registryAlive
    /\ initCalls < MaxInitCalls
    /\ initCalls' = initCalls + 1
    /\ pc' = [pc EXCEPT ![t] = [op |-> "InitializeMultiGpu", at |-> "lock",
                                desiredGpuCount |-> desiredGpuCount]]
    /\ UNCHANGED <<gpuMutex, gpuDevices, registryAlive, lastInit, vkVars, frameVars,
                   syncVars, memVars, cmdVars>>

\* thread t destroys the registry; a registry is destroyed once
CallDestructor(t) ==
    /\ pc[t] = Idle
    /\ registryAlive
    /\ \A u \in Threads : pc[u].op # "destructor"
    /\ pc' = [pc EXCEPT ![t] = [op |-> "destructor", at |-> "lock"]]
    /\ UNCHANGED <<gpuMutex, registryVars, vkVars, frameVars, syncVars, memVars, cmdVars>>

\* the lock_guard's constructor of either function returns in thread t.
\* (std::mutex is trivially destructible in the builds of this repository, so a thread
\* still blocked here when the destructor returns finds the mutex released.)
Lock(t) ==
    /\ pc[t].at = "lock"
    /\ MutexFree
    /\ gpuMutex' = t
    /\ pc' = [pc EXCEPT ![t].at = "section"]
    /\ UNCHANGED <<registryVars, vkVars, frameVars, syncVars, memVars, cmdVars>>

\* thread t runs the body of InitializeMultiGpu and returns, releasing the mutex
RunInitializeMultiGpu(t) ==
    /\ pc[t].op = "InitializeMultiGpu" /\ pc[t].at = "section"
    /\ LET r == InitializeMultiGpuResult(physicalDevices, gpuDevices, vkDevices, vkLog,
                                         pc[t].desiredGpuCount)
       IN  /\ gpuDevices' = r.gpuDevices
           /\ vkDevices' = r.vkDevices
           /\ vkLog' = r.vkLog
           /\ lastInit' = r.lastInit
    /\ gpuMutex' = 0
    /\ pc' = [pc EXCEPT ![t] = Idle]
    /\ UNCHANGED <<physicalDevices, registryAlive, initCalls, frameVars, syncVars,
                   memVars, cmdVars>>

\* thread t entered the body of InitializeMultiGpu after the registry was destroyed (it
\* was blocked on the mutex meanwhile): the body works on a destroyed vector, which may
\* go through as above or end the process, the mutex still held
FaultInitializeMultiGpu(t) ==
    /\ pc[t].op = "InitializeMultiGpu" /\ pc[t].at = "section"
    /\ ~registryAlive
    /\ pc' = [pc EXCEPT ![t].op = "fault"]
    /\ UNCHANGED <<gpuMutex, registryVars, vkVars, frameVars, syncVars, memVars, cmdVars>>

\* thread t runs the body of the destructor and returns, releasing the mutex
RunDestructor(t) ==
    /\ pc[t].op = "destructor" /\ pc[t].at = "section"
    /\ LET st == DestroyLoop(1, gpuDevices, [vkDevices |-> vkDevices, vkLog |-> vkLog])
       IN  /\ vkDevices' = st.vkDevices
           /\ vkLog' = st.vkLog
    /\ gpuDevices' = <<>>
    /\ registryAlive' = FALSE
    /\ gpuMutex' = 0
    /\ pc' = [pc EXCEPT ![t] = Idle]
    /\ UNCHANGED <<physicalDevices, initCalls, lastInit, frameVars, syncVars, memVars,
                   cmdVars>>


(* ========================= specifications ============================= *)

\* a physical device: its queue families in enumeration order, and the driver's answer
\* to bringing it up, taken to be the same on every call made on the device
PhysicalDevice(queueFamilies, bringUp) ==
    [queueFamilies |-> queueFamilies, bringUp |-> bringUp]

\* the physical devices of the registry specification: one without a graphics family,
\* one with a single family for everything, one with a family per capability; the
\* latter two coming up, failing device creation or failing pool creation
DeviceProfiles ==
    { PhysicalDevice(<< {"COMPUTE", "TRANSFER"} >>, "ok") }
    \cup
    { PhysicalDevice(f, o) :
        f \in { << {"GRAPHICS", "COMPUTE", "TRANSFER"} >>,
                << {"GRAPHICS"}, {"COMPUTE"}, {"TRANSFER"} >> },
        o \in BringUpOutcomes }

UnifiedDevice == PhysicalDevice(<< {"GRAPHICS", "COMPUTE", "TRANSFER"} >>, "ok")

SeqsUpTo(S, n) == UNION {[1 .. k -> S] : k \in 0 .. n}

\* the distributor, not yet configured (its constructor's values)
FrameConstructed ==
    /\ distributionMode = "SPLIT_FRAME_HORIZONTAL"
    /\ frameWidth = 0
    /\ frameHeight = 0
    /\ cachedRegions = <<>>
    /\ frameCall = NoFrameCall
    /\ requested = [mode |-> "SPLIT_FRAME_HORIZONTAL", width |-> 0, height |-> 0]

\* no synchronizer constructed
SyncAbsent ==
    /\ timelineSemaphores = <<>>
    /\ currentFrameIds = <<>>
    /\ syncCall = NoSyncCall

\* no command distributor constructed
CommandAbsent ==
    /\ perGpuCommandQueues = <<>>
    /\ pendingFences = <<>>
    /\ cmdCall = NoCmdCall

\* no thread inside the registry
NoThreads ==
    /\ gpuMutex = 0
    /\ pc = <<>>

\* a registry just constructed, the instance enumerating `physical`
RegistryConstructed(physical) ==
    /\ physicalDevices = physical
    /\ vkDevices = <<>>
    /\ vkLog = <<>>
    /\ gpuDevices = <<>>
    /\ registryAlive = TRUE
    /\ initCalls = 0
    /\ lastInit = NoInit

\* a registry after one InitializeMultiGpu call that brought up n unified devices
RegistryInitialized(n) ==
    LET physical == [k \in 1 .. n |-> UnifiedDevice]
        r == InitializeMultiGpuResult(physical, <<>>, <<>>, <<>>, n)
    IN  /\ physicalDevices = physical
        /\ vkDevices = r.vkDevices
        /\ vkLog = r.vkLog
        /\ gpuDevices = r.gpuDevices
        /\ registryAlive = TRUE
        /\ initCalls = 1
        /\ lastInit = r.lastInit

(* ---- the registry: initialization and teardown *)
Init ==
    /\ \E physical \in SeqsUpTo(DeviceProfiles, MaxPhysicalDevices) :
          RegistryConstructed(physical)
    /\ FrameConstructed
    /\ SyncAbsent
    /\ MemoryConstructed
    /\ CommandAbsent
    /\ NoThreads

Next ==
    \/ \E desiredGpuCount \in 0 .. MaxPhysicalDevices + 1 :
          InitializeMultiGpu(desiredGpuCount)
    \/ DestroyMultiGpuManager

Spec == Init /\ [][Next]_vars

(* ---- queue-family selection over every family list, one device, first call *)
InitQueue ==
    /\ \E families \in SeqsUpTo(SUBSET QueueFlagBits, MaxQueueFamilies) :
          \E outcome \in BringUpOutcomes :
             RegistryConstructed(<<PhysicalDevice(families, outcome)>>)
    /\ FrameConstructed
    /\ SyncAbsent
    /\ MemoryConstructed
    /\ CommandAbsent
    /\ NoThreads

NextQueue ==
    /\ initCalls = 0
    /\ InitializeMultiGpu(1)

SpecQueue == InitQueue /\ [][NextQueue]_vars

(* ---- the distributor over an initialized registry *)
InitFrame ==
    /\ \E n \in 0 .. MaxActiveGpus : RegistryInitialized(n)
    /\ FrameConstructed
    /\ SyncAbsent
    /\ MemoryConstructed
    /\ CommandAbsent
    /\ NoThreads

NextFrame ==
    \/ \E mode \in FrameDistributionModes : SetDistributionMode(mode)
    \/ \E width, height \in 0 .. MaxFrameDim : SetFrameResolution(width, height)
    \/ ComputeFrameRegions
    \/ \E gpuIndex \in 0 .. MaxActiveGpus : GetRegionForGpu(gpuIndex)

SpecFrame == InitFrame /\ [][NextFrame]_vars

(* ---- the synchronizer, constructed over an initialized registry *)
InitSync ==
    /\ \E n \in 0 .. MaxSyncGpus :
          /\ RegistryInitialized(n)
          /\ timelineSemaphores = [k \in 1 .. n |-> <<>>]
          /\ currentFrameIds = [k \in 1 .. n |-> 0]
    /\ syncCall = NoSyncCall
    /\ FrameConstructed
    /\ MemoryConstructed
    /\ CommandAbsent
    /\ NoThreads

NextSync ==
    \/ \E gpuIndex \in 0 .. MaxSyncGpus, frameId \in 0 .. MaxFrameId :
          SignalFrameComplete(gpuIndex, frameId)
    \/ \E gpuIndex \in 0 .. MaxSyncGpus, frameId \in 0 .. MaxFrameId :
          WaitForFrameComplete(gpuIndex, frameId)
    \/ \E gpuIndex \in 0 .. MaxSyncGpus :
          CreateTimelineSemaphore(gpuIndex, 0)

SpecSync == InitSync /\ [][NextSync]_vars


(* ---- the memory manager *)
InitMemory ==
    /\ RegistryInitialized(1)
    /\ FrameConstructed
    /\ SyncAbsent
    /\ MemoryConstructed
    /\ CommandAbsent
    /\ NoThreads

NextMemory ==
    \/ \E strategy \in MemoryPlacementStrategies : AllocateBuffer(strategy)
    \/ \E strategy \in MemoryPlacementStrategies : AllocateImage(strategy)
    \/ \E buffer \in Handles : FreeBuffer(buffer)
    \/ \E image \in Handles : FreeImage(image)

SpecMemory == InitMemory /\ [][NextMemory]_vars


(* ---- the command distributor, constructed over an initialized registry *)
InitCommand ==
    /\ \E n \in 0 .. MaxCmdGpus :
          /\ RegistryInitialized(n)
          /\ CommandConstructed(n)
    /\ FrameConstructed
    /\ SyncAbsent
    /\ MemoryConstructed
    /\ NoThreads

NextCommand ==
    \/ \E gpuIndex \in 0 .. MaxCmdGpus : SubmitCommandBuffersToGpu(gpuIndex)
    \/ \E submissions \in SeqsUpTo(0 .. MaxCmdGpus, MaxFrameSubmissions) :
          SubmitMultiGpuFrame(submissions)
    \/ \E gpuIndex \in 0 .. MaxCmdGpus, timeoutNs \in 0 .. MaxTimeoutNs :
          WaitForGpuCompletion(gpuIndex, timeoutNs)

SpecCommand == InitCommand /\ [][NextCommand]_vars


(* ---- one registry called from several threads *)
InitLock ==
    /\ \E physical \in SeqsUpTo(DeviceProfiles, 1) : RegistryConstructed(physical)
    /\ gpuMutex = 0
    /\ pc = [t \in Threads |-> Idle]
    /\ FrameConstructed
    /\ SyncAbsent
    /\ MemoryConstructed
    /\ CommandAbsent

NextLock ==
    \E t \in Threads :
       \/ CallInitializeMultiGpu(t, 1)
       \/ CallDestructor(t)
       \/ Lock(t)
       \/ RunInitializeMultiGpu(t)
       \/ FaultInitializeMultiGpu(t)
       \/ RunDestructor(t)

SpecLock == InitLock /\ [][NextLock]_vars


(* ============================= claims ================================= *)

(* ---- helpers of the frame claims *)
\* pixel (x, y) lies in region r
InRegion(r, x, y) ==
    /\ r.offsetX <= x /\ x < r.offsetX + r.width
    /\ r.offsetY <= y /\ y < r.offsetY + r.height

\* the regions holding pixel (x, y)
Owners(regions, x, y) == {k \in DOMAIN regions : InRegion(regions[k], x, y)}

\* no region reaches outside [0,width) x [0,height)
WithinFrame(regions, width, height) ==
    \A k \in DOMAIN regions :
        (regions[k].width > 0 /\ regions[k].height > 0) =>
            /\ regions[k].offsetX + regions[k].width <= width
            /\ regions[k].offsetY + regions[k].height <= height

ExactCover(regions, width, height) ==
    /\ WithinFrame(regions, width, height)
    /\ \A x \in 0 .. width - 1, y \in 0 .. height - 1 :
          Cardinality(Owners(regions, x, y)) = 1

NoOverlap(regions, width, height) ==
    /\ WithinFrame(regions, width, height)
    /\ \A x \in 0 .. width - 1, y \in 0 .. height - 1 :
          Cardinality(Owners(regions, x, y)) <= 1

\* ComputeFrameRegions has just returned its regions to the caller
RegionsReturned == frameCall.op = "ComputeFrameRegions" /\ ~frameCall.fault

\* C1 as stated: for every mode and frame size, with at least one active device, the
\* regions ComputeFrameRegions returns cover [0,width) x [0,height) exactly: every
\* pixel lies in exactly one region.
C1_EveryModeExactCover ==
    (RegionsReturned /\ GetActiveGpuCount >= 1) =>
        ExactCover(frameCall.regions, frameWidth, frameHeight)

\* C1 amended: with at least one active device, the regions returned never overlap
\* and never leave the frame; they cover the frame exactly in the horizontal mode, the
\* vertical mode and the modes that fall back to horizontal, and in the quadrant mode
\* when at least 4 devices are active. (Quadrant mode with fewer than 4 devices
\* returns only the first quadrants.)
C1_ExactCoverUnlessFewQuadrants ==
    (RegionsReturned /\ GetActiveGpuCount >= 1) =>
        /\ NoOverlap(frameCall.regions, frameWidth, frameHeight)
        /\ (distributionMode # "SPLIT_FRAME_QUADRANTS" \/ GetActiveGpuCount >= 4) =>
              ExactCover(frameCall.regions, frameWidth, frameHeight)

\* C1 witness: a quadrant split of an odd-sized frame over 4 devices has been returned
C1_Witness ==
    /\ RegionsReturned
    /\ distributionMode = "SPLIT_FRAME_QUADRANTS"
    /\ GetActiveGpuCount = 4
    /\ frameWidth = 3 /\ frameHeight = 3
    /\ Len(frameCall.regions) = 4

(* ---- helpers of the synchronizer claims *)
InRange(gpuIndex) == gpuIndex < Len(currentFrameIds)

\* C2 as stated: when WaitForFrameComplete(device, id) on an in-range device returns,
\* that device's completion counter is >= id.
C2_WaitReturnsOnlyOnceReached ==
    (syncCall.op = "WaitForFrameComplete" /\ InRange(syncCall.gpuIndex)) =>
        currentFrameIds[syncCall.gpuIndex + 1] >= syncCall.frameId

\* C3 as stated: every counter starts at 0 and no synchronizer call leaves a counter
\* below the value it held before the call.
C3_CounterNeverDecreases ==
    /\ syncCall.op = "none" => \A k \in DOMAIN currentFrameIds : currentFrameIds[k] = 0
    /\ syncCall.op # "none" =>
          \A k \in DOMAIN currentFrameIds : currentFrameIds[k] >= syncCall.before[k]

\* C4: SignalFrameComplete(d, N) with d in range leaves counter[d] = N and every other
\* counter as it was; with d out of range it raises nothing and leaves every counter
\* as it was.
C4_SignalSetsOnlyThatCounter ==
    syncCall.op = "SignalFrameComplete" =>
        /\ ~syncCall.raised
        /\ DOMAIN currentFrameIds = DOMAIN syncCall.before
        /\ \A k \in DOMAIN currentFrameIds :
              currentFrameIds[k] = IF k = syncCall.gpuIndex + 1 THEN syncCall.frameId
                                   ELSE syncCall.before[k]

\* C4 witness: device 0 of two has been signalled down from 2 to 1, device 1 keeps its 2
C4_Witness ==
    /\ syncCall.op = "SignalFrameComplete"
    /\ syncCall.gpuIndex = 0 /\ syncCall.frameId = 1
    /\ syncCall.before = <<2, 2>>
    /\ currentFrameIds = <<1, 2>>

(* ---- helpers of the registry claims *)
\* InitializeMultiGpu has just returned
InitReturned == lastInit.called /\ registryAlive

Available == Len(physicalDevices)

HasGraphics(queueFamilies) ==
    \E k \in DOMAIN queueFamilies : "GRAPHICS" \in queueFamilies[k]

\* the candidates of the last call, and those of them that pass selection and bring-up
Candidates == 0 .. Min(lastInit.desiredGpuCount, Available) - 1

Healthy ==
    {i \in Candidates : /\ HasGraphics(physicalDevices[i + 1].queueFamilies)
                         /\ physicalDevices[i + 1].bringUp = "ok"}

\* the records the last call appended to the table
Admitted == SubSeq(gpuDevices, lastInit.countBefore + 1, Len(gpuDevices))

\* C5 as stated: a call with desiredCount above the available count leaves the active
\* count equal to the available count.
C5_ActiveEqualsAvailable ==
    (InitReturned /\ lastInit.desiredGpuCount > Available) =>
        Len(gpuDevices) = Available

\* C5 amended: every call attempts exactly min(desiredCount, available) candidates and
\* admits at most that many devices, exactly that many when no candidate is skipped; so a
\* call with desiredCount above the available count admits at most the available count,
\* and exactly the available count when every device comes up.
C5_AdmitsAtMostMin ==
    InitReturned =>
        LET m == Min(lastInit.desiredGpuCount, Available)
        IN  /\ Len(lastInit.attempted) = m
            /\ Len(Admitted) <= m
            /\ Healthy = Candidates => Len(Admitted) = m
            /\ lastInit.desiredGpuCount > Available => Len(Admitted) <= Available

\* C5 witness: three devices asked of a fresh registry with two, both came up
C5_Witness ==
    /\ InitReturned
    /\ lastInit.desiredGpuCount = 3 /\ Available = 2
    /\ lastInit.countBefore = 0
    /\ Len(gpuDevices) = 2

\* C6 as stated: every active device has a resolved graphics family, and a call all of
\* whose candidates lack a graphics-capable family fails and leaves the active set empty.
C6_GraphicsResolvedOrInitFails ==
    /\ \A k \in DOMAIN gpuDevices : gpuDevices[k].graphicsQueueFamilyIndex # UINT32_MAX
    /\ (InitReturned /\ Candidates # {}
           /\ \A i \in Candidates : ~HasGraphics(physicalDevices[i + 1].queueFamilies)) =>
          (~lastInit.result /\ gpuDevices = <<>>)

\* the part of C6 that holds in every state: no active device lacks a graphics family
C6_ActiveHaveGraphics ==
    \A k \in DOMAIN gpuDevices :
        /\ gpuDevices[k].graphicsQueueFamilyIndex # UINT32_MAX
        /\ HasGraphics(physicalDevices[gpuDevices[k].physicalDevice + 1].queueFamilies)

\* C7: a call fails when no physical device is enumerated; otherwise each candidate is
\* attempted exactly once, in order, a candidate is admitted exactly when its own
\* selection and bring-up succeed, and the call returns failure exactly when the active
\* set it leaves is empty.
C7_SkipIsLocalAndFailIffEmpty ==
    InitReturned =>
        /\ Available = 0 => ~lastInit.result
        /\ Len(lastInit.attempted) = Cardinality(Candidates)
        /\ \A i \in Candidates : lastInit.attempted[i + 1] = i
        /\ Len(Admitted) = Cardinality(Healthy)
        /\ {Admitted[k].physicalDevice : k \in DOMAIN Admitted} = Healthy
        /\ \A j, k \in DOMAIN Admitted :
              j < k => Admitted[j].physicalDevice < Admitted[k].physicalDevice
        /\ ~lastInit.result <=> gpuDevices = <<>>

\* C7 witness: of two candidates the first failed bring-up and the second was admitted
C7_Witness ==
    /\ InitReturned
    /\ Available = 2 /\ lastInit.desiredGpuCount = 2 /\ lastInit.countBefore = 0
    /\ HasGraphics(physicalDevices[1].queueFamilies)
    /\ physicalDevices[1].bringUp = "pool_failed"
    /\ Len(gpuDevices) = 1 /\ gpuDevices[1].physicalDevice = 1
    /\ lastInit.result

(* ---- helpers of the queue-selection claim *)
\* 0-based indices of the families carrying a capability
Carrying(queueFamilies, flag) ==
    {i \in 0 .. Len(queueFamilies) - 1 : flag \in queueFamilies[i + 1]}

FirstOf(S) == IF S = {} THEN UINT32_MAX ELSE CHOOSE i \in S : \A j \in S : i <= j
LastOf(S) == IF S = {} THEN UINT32_MAX ELSE CHOOSE i \in S : \A j \in S : j <= i

\* selection has run on the single device of the queue specification
Selected == lastInit.called /\ Len(lastInit.selected) = 1

\* C8 as stated: graphics = last family with the graphics capability; compute = first
\* family with the compute capability not claimed by graphics; transfer = first family
\* with the transfer capability claimed by neither; the sentinel where there is none.
C8_FirstUnclaimedFamilies ==
    Selected =>
        LET F == physicalDevices[1].queueFamilies
            sel == lastInit.selected[1]
            g == LastOf(Carrying(F, "GRAPHICS"))
            c == FirstOf(Carrying(F, "COMPUTE") \ {g})
            t == FirstOf(Carrying(F, "TRANSFER") \ {g, c})
        IN  /\ sel.graphicsQueueFamilyIndex = g
            /\ sel.computeQueueFamilyIndex = c
            /\ sel.transferQueueFamilyIndex = t

\* C8 amended: graphics = last family with the graphics capability; compute = first
\* family with the compute capability; transfer = first family with the transfer
\* capability, each whether or not another kind resolved to the same family; the
\* sentinel where no family carries the capability.
C8_LastGraphicsFirstComputeTransfer ==
    Selected =>
        LET F == physicalDevices[1].queueFamilies
            sel == lastInit.selected[1]
        IN  /\ sel.graphicsQueueFamilyIndex = LastOf(Carrying(F, "GRAPHICS"))
            /\ sel.computeQueueFamilyIndex = FirstOf(Carrying(F, "COMPUTE"))
            /\ sel.transferQueueFamilyIndex = FirstOf(Carrying(F, "TRANSFER"))

\* C8 witness: two graphics families, the first also carrying compute and transfer
C8_Witness ==
    /\ Selected
    /\ physicalDevices[1].queueFamilies = << {"GRAPHICS", "COMPUTE", "TRANSFER"}, {"GRAPHICS"} >>
    /\ lastInit.selected[1].graphicsQueueFamilyIndex = 1
    /\ lastInit.selected[1].computeQueueFamilyIndex = 0
    /\ lastInit.selected[1].transferQueueFamilyIndex = 0

(* ---- the split claims *)
\* C9: a horizontal split over count >= 1 devices returns count regions in ordinal
\* order; region i starts at column i*floor(width/count), spans the full height, and is
\* floor(width/count) wide, the last one width - (count-1)*floor(width/count) wide
\* (1921 over 3 gives 640, 640, 641); a vertical split is the same with rows and columns
\* exchanged.
C9_StripSplit ==
    /\ (RegionsReturned /\ GetActiveGpuCount >= 1
          /\ distributionMode \in {"SPLIT_FRAME_HORIZONTAL", "SPLIT_FRAME_VERTICAL"}) =>
          LET count == GetActiveGpuCount
              horizontal == distributionMode = "SPLIT_FRAME_HORIZONTAL"
              extent == IF horizontal THEN frameWidth ELSE frameHeight
              step == extent \div count
              regions == frameCall.regions
          IN  /\ Len(regions) = count
              /\ \A i \in 0 .. count - 1 :
                    LET r == regions[i + 1]
                        size == IF i < count - 1 THEN step ELSE extent - (count - 1) * step
                    IN  /\ r.gpuIndex = i
                        /\ IF horizontal
                           THEN /\ r.offsetX = i * step /\ r.offsetY = 0
                                /\ r.width = size /\ r.height = frameHeight
                           ELSE /\ r.offsetY = i * step /\ r.offsetX = 0
                                /\ r.height = size /\ r.width = frameWidth
    /\ LET regions == ComputeHorizontalSplit(1921, 1080, 3)
       IN  [k \in 1 .. 3 |-> regions[k].width] = <<640, 640, 641>>
    /\ LET regions == ComputeVerticalSplit(1080, 1921, 3)
       IN  [k \in 1 .. 3 |-> regions[k].height] = <<640, 640, 641>>

\* C9 witness: a horizontal split of width 4 over 3 devices returned widths 1, 1, 2
C9_Witness ==
    /\ RegionsReturned
    /\ distributionMode = "SPLIT_FRAME_HORIZONTAL"
    /\ GetActiveGpuCount = 3 /\ frameWidth = 4
    /\ [k \in 1 .. 3 |-> frameCall.regions[k].width] = <<1, 1, 2>>

\* the 2x2 grid cut at floor(width/2), floor(height/2): column c, row r
GridCell(c, r, width, height) ==
    [offsetX |-> IF c = 0 THEN 0 ELSE width \div 2,
     offsetY |-> IF r = 0 THEN 0 ELSE height \div 2,
     width   |-> IF c = 0 THEN width \div 2 ELSE width - width \div 2,
     height  |-> IF r = 0 THEN height \div 2 ELSE height - height \div 2]

Place(r) == [offsetX |-> r.offsetX, offsetY |-> r.offsetY,
             width |-> r.width, height |-> r.height]

\* C10: a quadrant split returns min(4, active count) regions; ordinals 0, 1, 2, 3 own
\* the top-left, top-right, bottom-left, bottom-right cell of the 2x2 grid cut at
\* floor(width/2), floor(height/2), the odd column and row going right and down
\* (100x100 over 4 gives 50x50 at (0,0), (50,0), (0,50), (50,50)); with fewer than 4
\* devices only the first cells are returned and the other cells belong to no region.
C10_QuadrantSplit ==
    /\ (RegionsReturned /\ distributionMode = "SPLIT_FRAME_QUADRANTS") =>
          LET regions == frameCall.regions
              n == Min(4, GetActiveGpuCount)
          IN  /\ Len(regions) = n
              /\ \A i \in 0 .. n - 1 :
                    /\ regions[i + 1].gpuIndex = i
                    /\ Place(regions[i + 1]) = GridCell(i % 2, i \div 2, frameWidth, frameHeight)
              /\ \A j \in n .. 3 :
                    \A x \in 0 .. frameWidth - 1, y \in 0 .. frameHeight - 1 :
                        InRegion(GridCell(j % 2, j \div 2, frameWidth, frameHeight), x, y)
                            => Owners(regions, x, y) = {}
    /\ LET regions == ComputeQuadrantSplit(100, 100, 4)
       IN  [k \in 1 .. 4 |-> <<regions[k].offsetX, regions[k].offsetY,
                               regions[k].width, regions[k].height>>]
           = << <<0, 0, 50, 50>>, <<50, 0, 50, 50>>, <<0, 50, 50, 50>>, <<50, 50, 50, 50>> >>

\* C10 witness: a quadrant split of a 3x3 frame over 5 devices returned 4 regions, the
\* last one the 2x2 bottom-right cell
C10_Witness ==
    /\ RegionsReturned
    /\ distributionMode = "SPLIT_FRAME_QUADRANTS"
    /\ GetActiveGpuCount = 5
    /\ frameWidth = 3 /\ frameHeight = 3
    /\ Len(frameCall.regions) = 4
    /\ Place(frameCall.regions[4]) = [offsetX |-> 1, offsetY |-> 1, width |-> 2, height |-> 2]


(* ---- the distributor's remaining claims *)
\* GetRegionForGpu has just returned a region to the caller
RegionReturned == frameCall.op = "GetRegionForGpu" /\ ~frameCall.fault

\* the partition ComputeFrameRegions would return in the current state
Partition ==
    IF DividesByZero(distributionMode, GetActiveGpuCount) THEN <<>>
    ELSE ComputeFrameRegionsOf(distributionMode, frameWidth, frameHeight, GetActiveGpuCount)

\* C11: for every mode and ordinal i, GetRegionForGpu(i) is the region of the full
\* partition owned by i, and the all-zero region when the partition has none owned by i.
C11_RegionIsPartitionFilteredByOrdinal ==
    RegionReturned =>
        LET owned == {k \in DOMAIN Partition : Partition[k].gpuIndex = frameCall.gpuIndex}
        IN  /\ Cardinality(owned) <= 1
            /\ \A k \in owned : frameCall.region = Partition[k]
            /\ owned = {} =>
                  frameCall.region = [offsetX |-> 0, offsetY |-> 0, width |-> 0,
                                      height |-> 0, gpuIndex |-> 0]

\* C11 witness: ordinal 2 of a vertical split of height 4 over 3 devices got rows 2..3
C11_Witness ==
    /\ RegionReturned
    /\ distributionMode = "SPLIT_FRAME_VERTICAL"
    /\ GetActiveGpuCount = 3 /\ frameHeight = 4 /\ frameWidth = 2
    /\ frameCall.gpuIndex = 2
    /\ frameCall.region = [offsetX |-> 0, offsetY |-> 2, width |-> 2, height |-> 2,
                           gpuIndex |-> 2]

\* C12 as stated: with zero active devices a call computing the regions, in any mode,
\* reports the degenerate partition at once and never divides by zero.
C12_ZeroDevicesFailFast ==
    (frameCall.op \in {"ComputeFrameRegions", "GetRegionForGpu"} /\ GetActiveGpuCount = 0) =>
        (frameCall.degenerate /\ ~frameCall.dividedByZero)

\* C14: the regions depend on the mode and resolution last asked for and on the active
\* count only: ComputeFrameRegions returns the partition of the mode and resolution of
\* the most recent setter calls, nothing is ever served from the cache, and a setter
\* called again with the arguments already in force changes nothing the regions depend on.
C14_RegionsFollowLastSetters ==
    /\ cachedRegions = <<>>
    /\ <<distributionMode, frameWidth, frameHeight>>
          = <<requested.mode, requested.width, requested.height>>
    /\ (RegionsReturned /\ GetActiveGpuCount >= 1) =>
          frameCall.regions =
              ComputeFrameRegionsOf(requested.mode, requested.width, requested.height,
                                    GetActiveGpuCount)

\* C14 witness: after the mode and the resolution were changed, a vertical split of a
\* 2x3 frame over 2 devices was returned
C14_Witness ==
    /\ RegionsReturned
    /\ requested = [mode |-> "SPLIT_FRAME_VERTICAL", width |-> 2, height |-> 3]
    /\ GetActiveGpuCount = 2
    /\ [k \in 1 .. 2 |-> frameCall.regions[k].height] = <<1, 2>>


(* ---- the registry's remaining claims *)
\* the positions of a driver call in the log
Calls(call, handle) == {k \in DOMAIN vkLog : vkLog[k] = <<call, handle>>}

\* the logical devices that were admitted together with a command pool
Pooled == {h \in DOMAIN vkDevices : vkDevices[h].commandPool # "none"}

\* the records of the table that own logical device h
Owning(h) == {k \in DOMAIN gpuDevices : gpuDevices[k].logicalDevice = h}

\* C18: once the registry is torn down the active set is empty, and for each device that
\* was active its command pool was destroyed once, its logical device once, the pool first.
C18_TeardownPoolThenDeviceOnce ==
    ~registryAlive =>
        /\ gpuDevices = <<>>
        /\ \A h \in Pooled :
              /\ vkDevices[h].commandPool = "destroyed" /\ ~vkDevices[h].alive
              /\ Cardinality(Calls("vkDestroyCommandPool", h)) = 1
              /\ Cardinality(Calls("vkDestroyDevice", h)) = 1
              /\ \A p \in Calls("vkDestroyCommandPool", h) :
                    \A d \in Calls("vkDestroyDevice", h) : p < d

\* C18 witness: a registry with two active devices was torn down
C18_Witness ==
    /\ ~registryAlive
    /\ Pooled = {1, 2}
    /\ vkLog = << <<"vkDestroyCommandPool", 1>>, <<"vkDestroyDevice", 1>>,
                  <<"vkDestroyCommandPool", 2>>, <<"vkDestroyDevice", 2>> >>

\* C19: a logical device whose command pool could not be created is destroyed at once
\* and its candidate is not admitted, while the other candidates of the call are admitted
\* exactly when their own bring-up succeeds; and every logical device ever created is
\* owned by exactly one active record or else has been destroyed, exactly once.
C19_PoolFailureRollsBack ==
    /\ \A h \in DOMAIN vkDevices :
          /\ vkDevices[h].alive <=> Owning(h) # {}
          /\ Cardinality(Owning(h)) <= 1
          /\ ~vkDevices[h].alive <=> Cardinality(Calls("vkDestroyDevice", h)) = 1
          /\ vkDevices[h].alive => Calls("vkDestroyDevice", h) = {}
          /\ vkDevices[h].commandPool = "none" => ~vkDevices[h].alive
    /\ InitReturned =>
          /\ \A i \in Candidates :
                physicalDevices[i + 1].bringUp = "pool_failed" =>
                   \A k \in DOMAIN Admitted : Admitted[k].physicalDevice # i
          /\ {Admitted[k].physicalDevice : k \in DOMAIN Admitted} = Healthy

\* C19 witness: the first candidate's pool creation failed and its device was destroyed,
\* the second candidate was admitted and owns the second logical device
C19_Witness ==
    /\ InitReturned
    /\ Len(vkDevices) = 2
    /\ vkDevices[1].commandPool = "none" /\ ~vkDevices[1].alive
    /\ vkLog = << <<"vkDestroyDevice", 1>> >>
    /\ Len(gpuDevices) = 1
    /\ gpuDevices[1].physicalDevice = 1 /\ gpuDevices[1].logicalDevice = 2
    /\ vkDevices[2].alive

\* C20 as stated: after any sequence of InitializeMultiGpu calls the active count is at
\* most the number of physical devices and no physical device is in the table twice.
C20_NoDuplicateNoOvercount ==
    /\ Len(gpuDevices) <= Available
    /\ \A j, k \in DOMAIN gpuDevices :
          gpuDevices[j].physicalDevice = gpuDevices[k].physicalDevice => j = k


(* ---- the memory manager's claims *)
\* C13: right after AllocateBuffer or AllocateImage the table of that kind maps the
\* handle returned to the strategy passed; FreeBuffer or FreeImage of a handle the table
\* of that kind does not hold leaves both tables as they were.
C13_AllocateRecordsFreeUnknownIsNoOp ==
    /\ memCall.op = "AllocateBuffer" =>
          /\ memCall.returned \in DOMAIN bufferStrategies
          /\ bufferStrategies[memCall.returned] = memCall.strategy
    /\ memCall.op = "AllocateImage" =>
          /\ memCall.returned \in DOMAIN imageStrategies
          /\ imageStrategies[memCall.returned] = memCall.strategy
    /\ (memCall.op = "FreeBuffer" /\ memCall.handle \notin DOMAIN memCall.buffersBefore) =>
          (bufferStrategies = memCall.buffersBefore /\ imageStrategies = memCall.imagesBefore)
    /\ (memCall.op = "FreeImage" /\ memCall.handle \notin DOMAIN memCall.imagesBefore) =>
          (bufferStrategies = memCall.buffersBefore /\ imageStrategies = memCall.imagesBefore)

\* C13 witness: a buffer was allocated GPU_LOCAL over a record that said REPLICATED
C13_Witness ==
    /\ memCall.op = "AllocateBuffer" /\ memCall.strategy = "GPU_LOCAL"
    /\ memCall.returned \in DOMAIN memCall.buffersBefore
    /\ memCall.buffersBefore[memCall.returned] = "REPLICATED"
    /\ bufferStrategies[memCall.returned] = "GPU_LOCAL"

\* C17 as stated: every resource the caller holds keeps the strategy it was allocated
\* with, whatever was allocated or freed since; a buffer call never changes the image
\* table and an image call never changes the buffer table.
C17_RecordsArePerResource ==
    /\ \A k \in DOMAIN liveAllocations :
          LET a == liveAllocations[k]
              table == IF a.kind = "buffer" THEN bufferStrategies ELSE imageStrategies
          IN  a.handle \in DOMAIN table /\ table[a.handle] = a.strategy
    /\ memCall.op \in {"AllocateBuffer", "FreeBuffer"} =>
          imageStrategies = memCall.imagesBefore
    /\ memCall.op \in {"AllocateImage", "FreeImage"} =>
          bufferStrategies = memCall.buffersBefore


(* ---- the command distributor's claim *)
\* C15 as stated: WaitForGpuCompletion on an active device returns true only when none
\* of that device's fences is left outstanding, and false when the timeout passes with a
\* fence still outstanding.
C15_WaitReportsCompletion ==
    (cmdCall.op = "WaitForGpuCompletion" /\ cmdCall.gpuIndex + 1 \in DOMAIN pendingFences) =>
        (cmdCall.result <=> pendingFences[cmdCall.gpuIndex + 1] = 0)


(* ---- the registry called from several threads *)
\* C16: whatever threads call InitializeMultiGpu or the destructor of one registry, at
\* most one of them is past its lock_guard, in the section that changes the device
\* table, and that thread holds the mutex.
C16_InitAndTeardownExclusive ==
    /\ Cardinality(InSection) <= 1
    /\ \A t \in InSection : gpuMutex = t

\* C16 witness: a thread is inside the destructor's section while another thread that
\* called InitializeMultiGpu is held at the lock
C16_Witness ==
    \E t, u \in DOMAIN pc :
       /\ pc[t].op = "destructor" /\ pc[t].at = "section"
       /\ pc[u].op = "InitializeMultiGpu" /\ pc[u].at = "lock"


(* ---- the device table's records *)
\* C21 as stated: the ordinal stored in each active record is the index under which
\* GetGpuByIndex returns that record, also when an earlier candidate was skipped.
C21_OrdinalIsTableIndex ==
    \A index \in 0 .. GetActiveGpuCount - 1 : GetGpuByIndex(index).deviceId = index

\* the queue handles CreateLogicalDevice fetched into a record: graphics always, compute
\* and transfer when their family is resolved
FetchedQueues(gpu) ==
    {gpu.graphicsQueue}
       \cup (IF gpu.computeQueueFamilyIndex # UINT32_MAX THEN {gpu.computeQueue} ELSE {})
       \cup (IF gpu.transferQueueFamilyIndex # UINT32_MAX THEN {gpu.transferQueue} ELSE {})

\* the families the creation request of logical device h asked a queue of
RequestedFamilies(h) ==
    {vkDevices[h].queueCreateInfos[k] : k \in DOMAIN vkDevices[h].queueCreateInfos}

\* C22 as stated: every queue handle fetched for an admitted device comes from a family
\* that had a queue-create entry in the creation request of that device.
C22_QueuesFetchedFromRequestedFamilies ==
    \A k \in DOMAIN gpuDevices :
       \A queue \in FetchedQueues(gpuDevices[k]) :
          /\ queue[1] = gpuDevices[k].logicalDevice
          /\ queue[2] \in RequestedFamilies(queue[1])

====
